---- MODULE Spec2Model ----
(***************************************************************************)
(* Model of quack's `update` command (src/src/commands/update.rs): the     *)
(* immediate update and the scheduled loop with and without IP preflight.  *)
(* The network collaborators (public_ip::Service::ipv4, duck_dns::Client:: *)
(* update, tokio's lookup_host) are nondeterministic over their outcomes.  *)
(***************************************************************************)
EXTENDS Integers, Sequences, FiniteSets, TLC

\* ---------------------------------------------------------------- bounds
\* Ipv4 addresses are 0..MaxAddr; 0 is Ipv4Addr::UNSPECIFIED (0.0.0.0).
MaxAddr == 2
\* Number of loop iterations explored in scheduled mode.
MaxTicks == 3

\* ------------------------------------------------------------- constants
\* Option::None for addresses and durations.
None == -1
\* Ipv4Addr::UNSPECIFIED
UNSPECIFIED == 0
\* Duration::from_secs(60), the cap of the sleep after a failed preflight.
BackoffSecs == 60

Ipv4Addrs == 0..MaxAddr
\* One IPv6 address stands for all of them; it is distinct from every Ipv4.
Ipv6Addrs == {100}
\* --schedule values, in seconds: absent, zero, below, at and above the cap.
Schedules == {None, 0, BackoffSecs - 1, BackoffSecs, BackoffSecs + 1}

Min(a, b) == IF a <= b THEN a ELSE b

\* ------------------------------------------------------ check_ip_opts.rs
NoOpts == [kind |-> "None", server |-> "None", record_type |-> "None"]

\* CheckIpOpts values given with --preflight-opts (None when not given).
CheckIpOpts ==
    { NoOpts,
      [kind |-> "PlainText", server |-> "None", record_type |-> "None"],
      [kind |-> "Json", server |-> "None", record_type |-> "None"],
      [kind |-> "Dns", server |-> "Host", record_type |-> "None"],
      [kind |-> "Dns", server |-> "Ip", record_type |-> "A"],
      [kind |-> "Dns", server |-> "SocketAddr", record_type |-> "TXT"] }

NoService == [kind |-> "None", record_type |-> "None"]

\* impl Default for Service: the OpenDNS resolver, record type A.
DefaultService == [kind |-> "Dns", record_type |-> "A"]

\* Server::into_socket_addr: only a Host needs lookup_host, which can fail.
into_socket_addr(server) ==
    IF server = "Host" THEN {"ok", "err"} ELSE {"ok"}

\* CheckIpOpts::into_service: the outcomes, "err" or the Service built.
into_service(o) ==
    IF o.kind = "Dns"
    THEN { IF r = "ok"
           THEN [kind |-> "Dns",
                 record_type |-> IF o.record_type = "None" THEN "A"
                                 ELSE o.record_type]
           ELSE NoService : r \in into_socket_addr(o.server) }
    ELSE { [kind |-> o.kind, record_type |-> "None"] }

\* ------------------------------------------------------ public_ip/lib.rs
\* Service::ipv4: an address, an Error, or (Dns only) a panic from the
\* expect() on the first answer's record type.
ipv4(s) ==
    { [r |-> "ok", ip |-> a] : a \in Ipv4Addrs }
    \cup { [r |-> "err", ip |-> None] }
    \cup (IF s.kind = "Dns" THEN { [r |-> "panic", ip |-> None] } ELSE {})

\* ----------------------------------------------------- duck_dns/options.rs
UpdateOptions_default == [ipv4 |-> None, ipv6 |-> None, verbose |-> FALSE]
UpdateOptions_new(a, b, v) == [ipv4 |-> a, ipv6 |-> b, verbose |-> v]
UpdateOptions_ipv4(a, v) == [ipv4 |-> a, ipv6 |-> None, verbose |-> v]
UpdateOptions_ipv6(b, v) == [ipv4 |-> None, ipv6 |-> b, verbose |-> v]
UpdateOptions_verbose == [ipv4 |-> None, ipv6 |-> None, verbose |-> TRUE]

\* Client::update: the provider answers (Ok) or the call fails (Err).
update == {"ok", "err"}

\* ------------------------------------------------------------ the state
VARIABLES
    pc,        \* where the command is
    opts,      \* the Update struct filled from the command line
    service,   \* the public_ip::Service of the loop (NoService: none)
    prev_ip,   \* run's `prev_ip`
    cur,       \* the iteration in progress
    log,       \* the finished iterations, oldest first
    clock,     \* seconds slept so far
    sleepFor,  \* the Duration of the sleep in progress
    result,    \* what run returned
    lookups,   \* number of lookup_host calls made
    n_ipv4,    \* number of Service::ipv4 calls made
    n_update,  \* number of Client::update calls made
    call       \* the parser or resolver call under study: input and output

\* The state of the update command.
cmd_vars == <<pc, opts, service, prev_ip, cur, log, clock, sleepFor, result,
              lookups, n_ipv4, n_update>>

vars == <<cmd_vars, call>>

\* No parser or resolver call is being followed.
NoCall == [fn |-> "none", in |-> <<>>, out |-> <<>>, done |-> FALSE]

\* A run followed for ever is observed without its history: log holds the
\* last iteration only, the clock and the call counts stand still.
Unbounded == [fn |-> "unbounded", in |-> <<>>, out |-> <<>>, done |-> FALSE]
History == call # Unbounded
Logged(e) == IF History THEN Append(log, e) ELSE <<e>>
Counted(n) == IF History THEN n + 1 ELSE n
Elapsed(d) == IF History THEN clock + d ELSE clock
TickAllowed == History => Len(log) < MaxTicks

IsV4(x) == x \in Ipv4Addrs
IsV6(x) == x \in Ipv6Addrs

\* One loop iteration (or the single immediate update) as observed.
Event(start, prev) ==
    [start |-> start, prev |-> prev, resolve |-> "none", ip |-> None,
     update |-> "none", args |-> UpdateOptions_default,
     logged |-> "none", sleep |-> None]

\* structopt's conflicts_with_all on preflight_ip, preflight_opts, schedule.
Conflicts(o) ==
    /\ (o.ip # None \/ o.ipv6 # None)
    /\ (o.preflight_ip \/ o.preflight_opts.kind # "None" \/ o.schedule # None)

Init ==
    /\ pc = "from_args"
    /\ opts \in [ip : {None} \cup Ipv4Addrs \cup Ipv6Addrs,
                 ipv6 : {None} \cup Ipv6Addrs,
                 preflight_ip : BOOLEAN,
                 preflight_opts : CheckIpOpts,
                 schedule : Schedules,
                 verbose : BOOLEAN]
    /\ service = NoService
    /\ prev_ip = UNSPECIFIED
    /\ cur = Event(0, UNSPECIFIED)
    /\ log = <<>>
    /\ clock = 0
    /\ sleepFor = None
    /\ result = "none"
    /\ lookups = 0
    /\ n_ipv4 = 0
    /\ n_update = 0
    /\ call = NoCall

\* FromStr for Server, run by from_args for --preflight-opts: a host token is
\* parsed into a Name; lookup_host is not called.
from_str_lookups(o) == 0

\* Mutant: Service::ipv4 looks the server's host name up again on each call.
ipv4_lookups_again(o) ==
    IF o.preflight_opts.kind = "Dns" /\ o.preflight_opts.server = "Host"
    THEN 1 ELSE 0

\* Service::ipv4 (Dns) connects to the SocketAddr stored in the Service;
\* lookup_host is not called.
ipv4_lookups(o) == 0

\* Opts::from_args: clap rejects conflicting arguments before run starts.
from_args ==
    /\ pc = "from_args"
    /\ pc' = IF Conflicts(opts) THEN "usage_error" ELSE "run"
    /\ lookups' = lookups + from_str_lookups(opts)
    /\ UNCHANGED <<opts, service, prev_ip, cur, log, clock, sleepFor, result,
                   n_ipv4, n_update>>
    /\ UNCHANGED call

\* ------------------------------------------------- commands/update.rs
\* Mutant: the comparison with prev_ip is lost and every address is sent.
skip_update_never(ip, prev) == FALSE

\* update_preflight_schedule: `if ip == prev_ip { return Ok((None, prev_ip)) }`
skip_update(ip, prev) == ip = prev

\* Mutant: the resolved address is not passed on to the update call.
preflight_args_auto(ip, verbose) == [ipv4 |-> None, ipv6 |-> None, verbose |-> verbose]

\* update_preflight_schedule: `UpdateOptions::ipv4(ip, verbose)`
preflight_args(ip, verbose) == UpdateOptions_ipv4(ip, verbose)

\* Mutant: the verbose flag is dropped.
update_schedule_args_plain(verbose) == UpdateOptions_default

\* update_schedule: `if verbose { verbose() } else { default() }`
update_schedule_args(verbose) ==
    IF verbose THEN UpdateOptions_verbose ELSE UpdateOptions_default

\* Mutant: the Err arm sleeps the whole interval.
backoff_full(schedule) == schedule

\* run, Err arm: `schedule.min(Duration::from_secs(60))`
backoff(schedule) == Min(schedule, BackoffSecs)

\* Mutant: the sleep after a successful tick is capped like the back-off.
tick_sleep_capped(schedule) == Min(schedule, BackoffSecs)

\* run, end of the loop body: `tokio::time::sleep(schedule)`
tick_sleep(schedule) == schedule

\* Mutant: the address of a successful update is not recorded.
prev_ip_unrecorded(prev, ip) == prev

\* run, Ok arm: `prev_ip = ip` with the ip update_preflight_schedule returned.
prev_ip_on_ok(prev, ip) == ip

\* Mutant: the Err arm records the address that was resolved.
prev_ip_observed(prev, ip) == IF ip = None THEN prev ELSE ip

\* Mutant: a failed tick resets prev_ip to the unspecified address.
prev_ip_reset(prev, ip) == UNSPECIFIED

\* run, Err arm: prev_ip is not assigned.
prev_ip_on_err(prev, ip) == prev

\* run, Err arm: error!("error during IP preflight: {}", e)
log_preflight_err == "error"

\* Mutant: the failed update is not logged.
log_update_err_silent == "none"

\* run, unconditional arm: `Err(e) => error!("{}", e)`
log_update_err == "error"

\* update_now's match on (ip, ipv6): the UpdateOptions to send ("args"), the
\* early return for (Some(V6), Some(_)) ("IpOptError"), or the arm that
\* resolves the address first ("preflight").
Args(a) == [t |-> "args", a |-> a]
\* Mutant: (Some(V6), Some(_)) is not rejected, the second address is sent.
update_now_args_unchecked(o) ==
    CASE IsV4(o.ip) /\ o.ipv6 = None -> Args(UpdateOptions_ipv4(o.ip, o.verbose))
      [] IsV6(o.ip) /\ o.ipv6 = None -> Args(UpdateOptions_ipv6(o.ip, o.verbose))
      [] o.ip = None /\ o.ipv6 # None -> Args(UpdateOptions_ipv6(o.ipv6, o.verbose))
      [] IsV4(o.ip) /\ o.ipv6 # None ->
           Args(UpdateOptions_new(o.ip, o.ipv6, o.verbose))
      [] IsV6(o.ip) /\ o.ipv6 # None ->
           Args(UpdateOptions_ipv6(o.ipv6, o.verbose))
      [] o.ip = None /\ o.ipv6 = None
           /\ (o.preflight_ip \/ o.preflight_opts.kind # "None") ->
           [t |-> "preflight", a |-> UpdateOptions_default]
      [] o.ip = None /\ o.ipv6 = None /\ ~o.preflight_ip
           /\ o.preflight_opts.kind = "None" /\ o.verbose ->
           Args(UpdateOptions_verbose)
      [] OTHER -> Args(UpdateOptions_default)

update_now_args(o) ==
    CASE IsV4(o.ip) /\ o.ipv6 = None -> Args(UpdateOptions_ipv4(o.ip, o.verbose))
      [] IsV6(o.ip) /\ o.ipv6 = None -> Args(UpdateOptions_ipv6(o.ip, o.verbose))
      [] o.ip = None /\ o.ipv6 # None -> Args(UpdateOptions_ipv6(o.ipv6, o.verbose))
      [] IsV4(o.ip) /\ o.ipv6 # None ->
           Args(UpdateOptions_new(o.ip, o.ipv6, o.verbose))
      [] IsV6(o.ip) /\ o.ipv6 # None ->
           [t |-> "IpOptError", a |-> UpdateOptions_default]
      [] o.ip = None /\ o.ipv6 = None
           /\ (o.preflight_ip \/ o.preflight_opts.kind # "None") ->
           [t |-> "preflight", a |-> UpdateOptions_default]
      [] o.ip = None /\ o.ipv6 = None /\ ~o.preflight_ip
           /\ o.preflight_opts.kind = "None" /\ o.verbose ->
           Args(UpdateOptions_verbose)
      [] OTHER -> Args(UpdateOptions_default)

\* The Services run / update_now can end up with ("err": lookup failed).
services(o) ==
    IF o.preflight_opts.kind # "None" THEN into_service(o.preflight_opts)
    ELSE IF o.preflight_ip THEN {DefaultService}
    ELSE {NoService}

\* Whether building the Service calls lookup_host.
needs_lookup(o) ==
    o.preflight_opts.kind = "Dns" /\ o.preflight_opts.server = "Host"

Scheduled == opts.schedule # None
Preflight == service.kind # "None"

\* Update::run up to the loop: no schedule hands over to update_now,
\* otherwise the Service is built (and a failed lookup returns the error).
run ==
    /\ pc = "run"
    /\ IF opts.schedule = None
       THEN /\ pc' = "update_now"
            /\ UNCHANGED <<service, prev_ip, result, lookups>>
       ELSE /\ lookups' = IF needs_lookup(opts) THEN lookups + 1 ELSE lookups
            /\ \E s \in services(opts) :
                 IF s = NoService /\ opts.preflight_opts.kind # "None"
                 THEN /\ pc' = "returned"
                      /\ result' = "Err:io"
                      /\ UNCHANGED <<service, prev_ip>>
                 ELSE /\ pc' = "loop"
                      /\ service' = s
                      /\ prev_ip' = UNSPECIFIED
                      /\ UNCHANGED result
    /\ UNCHANGED <<opts, cur, log, clock, sleepFor, n_ipv4, n_update>>
    /\ UNCHANGED call

\* update_now up to its first await: the match on (ip, ipv6).
update_now ==
    /\ pc = "update_now"
    /\ LET a == update_now_args(opts) IN
       IF a.t = "IpOptError"
       THEN /\ pc' = "returned"
            /\ result' = "Err:IpOptError"
            /\ log' = Logged(Event(clock, prev_ip))
            /\ UNCHANGED <<service, cur, lookups>>
       ELSE IF a.t = "preflight"
       THEN /\ lookups' = IF needs_lookup(opts) THEN lookups + 1 ELSE lookups
            /\ \E s \in services(opts) :
                 IF s = NoService
                 THEN /\ pc' = "returned"
                      /\ result' = "Err:io"
                      /\ log' = Logged(Event(clock, prev_ip))
                      /\ UNCHANGED <<service, cur>>
                 ELSE /\ pc' = "now_resolve"
                      /\ service' = s
                      /\ cur' = Event(clock, prev_ip)
                      /\ UNCHANGED <<result, log>>
       ELSE /\ pc' = "now_update"
            /\ cur' = [Event(clock, prev_ip) EXCEPT !.args = a.a]
            /\ UNCHANGED <<service, result, log, lookups>>
    /\ UNCHANGED <<opts, prev_ip, clock, sleepFor, n_ipv4, n_update>>
    /\ UNCHANGED call

\* update_now: `let ip = service.ipv4().await?`
now_resolve ==
    /\ pc = "now_resolve"
    /\ \E o \in ipv4(service) :
         LET e == [cur EXCEPT !.resolve = o.r, !.ip = o.ip] IN
         CASE o.r = "ok" ->
                /\ pc' = "now_update"
                /\ cur' = [e EXCEPT !.args = UpdateOptions_ipv4(o.ip, opts.verbose)]
                /\ UNCHANGED <<log, result>>
           [] o.r = "err" ->
                /\ pc' = "returned"
                /\ result' = "Err:resolve"
                /\ log' = Logged(e)
                /\ UNCHANGED cur
           [] OTHER ->
                /\ pc' = "panicked"
                /\ log' = Logged(e)
                /\ UNCHANGED <<cur, result>>
    /\ n_ipv4' = Counted(n_ipv4)
    /\ lookups' = lookups + ipv4_lookups(opts)
    /\ UNCHANGED <<opts, service, prev_ip, clock, sleepFor, n_update>>
    /\ UNCHANGED call

\* update_now: `Ok(client.update(args).await?)`
now_update ==
    /\ pc = "now_update"
    /\ \E u \in update :
         /\ log' = Logged([cur EXCEPT !.update = u])
         /\ result' = IF u = "ok" THEN "Ok" ELSE "Err:update"
    /\ pc' = "returned"
    /\ n_update' = Counted(n_update)
    /\ UNCHANGED <<opts, service, prev_ip, cur, clock, sleepFor, lookups, n_ipv4>>
    /\ UNCHANGED call

\* Loop iteration with a Service, first await of update_preflight_schedule:
\* `service.ipv4().await?`, then the comparison with prev_ip.
preflight_resolve ==
    /\ pc = "loop"
    /\ Preflight
    /\ TickAllowed
    /\ \E o \in ipv4(service) :
         LET e == [Event(clock, prev_ip) EXCEPT !.resolve = o.r, !.ip = o.ip] IN
         CASE o.r = "ok" /\ skip_update(o.ip, prev_ip) ->
                \* Ok((None, prev_ip)): "no ip change, skipping update"
                /\ prev_ip' = prev_ip_on_ok(prev_ip, prev_ip)
                /\ log' = Logged([e EXCEPT !.logged = "info",
                                                !.sleep = tick_sleep(opts.schedule)])
                /\ sleepFor' = tick_sleep(opts.schedule)
                /\ pc' = "sleep"
                /\ UNCHANGED cur
           [] o.r = "ok" /\ ~skip_update(o.ip, prev_ip) ->
                /\ cur' = [e EXCEPT !.args = preflight_args(o.ip, opts.verbose)]
                /\ pc' = "preflight_update"
                /\ UNCHANGED <<prev_ip, log, sleepFor>>
           [] o.r = "err" ->
                /\ prev_ip' = prev_ip_on_err(prev_ip, o.ip)
                /\ log' = Logged([e EXCEPT !.logged = log_preflight_err,
                                                !.sleep = backoff(opts.schedule)])
                /\ sleepFor' = backoff(opts.schedule)
                /\ pc' = "sleep"
                /\ UNCHANGED cur
           [] OTHER ->
                /\ log' = Logged(e)
                /\ pc' = "panicked"
                /\ UNCHANGED <<prev_ip, cur, sleepFor>>
    /\ n_ipv4' = Counted(n_ipv4)
    /\ lookups' = lookups + ipv4_lookups(opts)
    /\ UNCHANGED <<opts, service, clock, result, n_update>>
    /\ UNCHANGED call

\* Mutant: a failed update is logged but the loop sleeps the whole interval,
\* as the arm without a Service does.
preflight_update_full_sleep ==
    /\ pc = "preflight_update"
    /\ \E u \in update :
         /\ prev_ip' = IF u = "ok" THEN cur.ip ELSE prev_ip
         /\ log' = Logged([cur EXCEPT !.update = u,
                                           !.logged = IF u = "ok" THEN "info"
                                                      ELSE "error",
                                           !.sleep = opts.schedule])
         /\ sleepFor' = opts.schedule
    /\ pc' = "sleep"
    /\ n_update' = Counted(n_update)
    /\ UNCHANGED <<opts, service, cur, clock, result, lookups, n_ipv4>>
    /\ UNCHANGED call

\* Mutant: the update error leaves the loop (`?` in run) instead of being
\* logged.
preflight_update_propagates ==
    /\ pc = "preflight_update"
    /\ \E u \in update :
         IF u = "ok"
         THEN /\ prev_ip' = cur.ip
              /\ log' = Logged([cur EXCEPT !.update = u, !.logged = "info",
                                                !.sleep = opts.schedule])
              /\ sleepFor' = opts.schedule
              /\ pc' = "sleep"
              /\ UNCHANGED result
         ELSE /\ log' = Logged([cur EXCEPT !.update = u])
              /\ pc' = "returned"
              /\ result' = "Err:update"
              /\ UNCHANGED <<prev_ip, sleepFor>>
    /\ n_update' = Counted(n_update)
    /\ UNCHANGED <<opts, service, cur, clock, lookups, n_ipv4>>
    /\ UNCHANGED call

\* Second await of update_preflight_schedule: `client.update(args).await?`,
\* and the arm of run's match its result selects.
preflight_update ==
    /\ pc = "preflight_update"
    /\ \E u \in update :
         IF u = "ok"
         THEN /\ prev_ip' = prev_ip_on_ok(prev_ip, cur.ip)
              /\ log' = Logged([cur EXCEPT !.update = u, !.logged = "info",
                                                !.sleep = tick_sleep(opts.schedule)])
              /\ sleepFor' = tick_sleep(opts.schedule)
         ELSE /\ prev_ip' = prev_ip_on_err(prev_ip, cur.ip)
              /\ log' = Logged([cur EXCEPT !.update = u,
                                                !.logged = log_preflight_err,
                                                !.sleep = backoff(opts.schedule)])
              /\ sleepFor' = backoff(opts.schedule)
    /\ pc' = "sleep"
    /\ n_update' = Counted(n_update)
    /\ UNCHANGED <<opts, service, cur, clock, result, lookups, n_ipv4>>
    /\ UNCHANGED call

\* Loop iteration without a Service: update_schedule and its logging.
update_schedule ==
    /\ pc = "loop"
    /\ ~Preflight
    /\ TickAllowed
    /\ \E u \in update :
         log' = Logged([Event(clock, prev_ip) EXCEPT
                               !.args = update_schedule_args(opts.verbose),
                               !.update = u,
                               !.logged = IF u = "ok" THEN "info" ELSE log_update_err,
                               !.sleep = tick_sleep(opts.schedule)])
    /\ sleepFor' = tick_sleep(opts.schedule)
    /\ pc' = "sleep"
    /\ n_update' = Counted(n_update)
    /\ UNCHANGED <<opts, service, prev_ip, cur, clock, result, lookups, n_ipv4>>
    /\ UNCHANGED call

\* tokio::time::sleep(d) completes; `continue` or the end of the loop body.
sleep ==
    /\ pc = "sleep"
    /\ clock' = Elapsed(sleepFor)
    /\ sleepFor' = None
    /\ pc' = "loop"
    /\ UNCHANGED <<opts, service, prev_ip, cur, log, result, lookups, n_ipv4, n_update>>
    /\ UNCHANGED call

Next ==
    \/ from_args
    \/ run
    \/ update_now
    \/ now_resolve
    \/ now_update
    \/ preflight_resolve
    \/ preflight_update
    \/ update_schedule
    \/ sleep

Spec == Init /\ [][Next]_vars

\* The command followed for ever: the same start and the same steps, the
\* history windowed. Every await of the loop returns and every sleep ends
\* (tokio drives the one task of run), which is weak fairness of the steps.
InitLive ==
    /\ pc = "from_args"
    /\ opts \in [ip : {None} \cup Ipv4Addrs \cup Ipv6Addrs,
                 ipv6 : {None} \cup Ipv6Addrs,
                 preflight_ip : BOOLEAN,
                 preflight_opts : CheckIpOpts,
                 schedule : Schedules,
                 verbose : BOOLEAN]
    /\ service = NoService
    /\ prev_ip = UNSPECIFIED
    /\ cur = Event(0, UNSPECIFIED)
    /\ log = <<>>
    /\ clock = 0
    /\ sleepFor = None
    /\ result = "none"
    /\ lookups = 0
    /\ n_ipv4 = 0
    /\ n_update = 0
    /\ call = Unbounded

SpecLive == InitLive /\ [][Next]_vars /\ WF_vars(Next)

\* =================================================== strings and numbers
\* A &str is a sequence of one-character strings.
Digits == {"0", "1", "2", "3", "4", "5", "6", "7", "8", "9"}
DigitVal == "0" :> 0 @@ "1" :> 1 @@ "2" :> 2 @@ "3" :> 3 @@ "4" :> 4 @@
            "5" :> 5 @@ "6" :> 6 @@ "7" :> 7 @@ "8" :> 8 @@ "9" :> 9

\* All strings over alphabet A of length 0..n.
RECURSIVE Strings(_, _)
Strings(A, n) ==
    IF n = 0 THEN {<<>>}
    ELSE LET S == Strings(A, n - 1) IN
         S \cup {Append(s, c) : s \in S, c \in A}

Front(s) == SubSeq(s, 1, Len(s) - 1)
Last(s) == s[Len(s)]
Drop(s, n) == SubSeq(s, n + 1, Len(s))

\* The longest prefix of s whose characters are all in A (nom's many0 /
\* is_not / space0 over a character class).
RECURSIVE PrefixIn(_, _)
PrefixIn(s, A) ==
    IF s # <<>> /\ Head(s) \in A THEN <<Head(s)>> \o PrefixIn(Tail(s), A)
    ELSE <<>>

\* A u64 too large for TLC's integers is kept as its decimal digits, most
\* significant first, without leading zeros (0 is <<0>>).
RECURSIVE NatDigits(_)
NatDigits(n) == IF n = 0 THEN <<>> ELSE Append(NatDigits(n \div 10), n % 10)

RECURSIVE MulCarry(_, _, _)
MulCarry(u, k, carry) ==
    IF u = <<>> THEN NatDigits(carry)
    ELSE LET t == Last(u) * k + carry IN
         Append(MulCarry(Front(u), k, t \div 10), t % 10)

RECURSIVE StripZeros(_)
StripZeros(u) ==
    IF Len(u) > 1 /\ Head(u) = 0 THEN StripZeros(Tail(u)) ELSE u

\* u * k for a digit sequence u and a small factor k.
Mul(u, k) == StripZeros(MulCarry(u, k, 0))

RECURSIVE LexLeq(_, _)
LexLeq(a, b) ==
    \/ a = <<>>
    \/ Head(a) < Head(b)
    \/ Head(a) = Head(b) /\ LexLeq(Tail(a), Tail(b))

\* a <= b for digit sequences without leading zeros.
Leq(a, b) == Len(a) < Len(b) \/ (Len(a) = Len(b) /\ LexLeq(a, b))

\* u64::MAX = 18446744073709551615
U64_MAX == <<1, 8, 4, 4, 6, 7, 4, 4, 0, 7, 3, 7, 0, 9, 5, 5, 1, 6, 1, 5>>

\* ------------------------------------------------------ parse_duration.rs
Ok(v) == [t |-> "Ok", v |-> v]
Err(e) == [t |-> e, v |-> <<>>]

\* str::parse::<u64>: the value, or BadInt when it does not fit.
parse_u64(num) ==
    LET u == StripZeros([i \in 1..Len(num) |-> DigitVal[num[i]]]) IN
    IF Leq(u, U64_MAX) THEN Ok(u) ELSE Err("BadInt")

\* parse_spec: all_consuming(pair(alt((recognize(pair(one_of("123456789"),
\* many0(one_of("0123456789")))), tag("0"))), one_of("smhdw"))), then
\* num.parse() and the match on the unit character.
parse_spec(s) ==
    LET num == IF s # <<>> /\ Head(s) \in Digits \ {"0"}
               THEN <<Head(s)>> \o PrefixIn(Tail(s), Digits)
               ELSE IF s # <<>> /\ Head(s) = "0" THEN <<"0">>
               ELSE <<>>
        r == Drop(s, Len(num))
    IN  IF num = <<>> \/ r = <<>> \/ Head(r) \notin {"s", "m", "h", "d", "w"}
           \/ Tail(r) # <<>>
        THEN Err("UnrecognizedInput")
        ELSE LET u == parse_u64(num) IN
             IF u.t = "Ok" THEN [t |-> "Ok", v |-> u.v, unit |-> Head(r)]
             ELSE [t |-> u.t, v |-> <<>>, unit |-> Head(r)]

\* Mutant: the multiplication wraps around silently instead of failing.
unchecked_mul(u, k) == [ok |-> TRUE, v |-> Mul(u, k)]

\* u64::checked_mul
checked_mul(u, k) ==
    LET p == Mul(u, k) IN
    IF Leq(p, U64_MAX) THEN [ok |-> TRUE, v |-> p] ELSE [ok |-> FALSE, v |-> <<>>]

\* Mutant: a day is taken to have 12 hours.
HoursPerDay_half == 24 \div 2

\* The factors of impl TryFrom<Spec> for Duration.
SecsPerMinute == 60
MinutesPerHour == 60
HoursPerDay == 24
DaysPerWeek == 7

\* impl TryFrom<Spec> for Duration: each unit is converted to the next
\* smaller one with checked_mul, down to Duration::from_secs.
RECURSIVE try_from(_, _)
try_from(unit, u) ==
    IF unit = "s" THEN Ok(u)
    ELSE LET k == CASE unit = "m" -> SecsPerMinute
                    [] unit = "h" -> MinutesPerHour
                    [] unit = "d" -> HoursPerDay
                    [] unit = "w" -> DaysPerWeek
             next == CASE unit = "m" -> "s"
                       [] unit = "h" -> "m"
                       [] unit = "d" -> "h"
                       [] unit = "w" -> "d"
             c == checked_mul(u, k)
         IN  IF c.ok THEN try_from(next, c.v) ELSE Err("Overflow")

\* parse_duration: `Ok(Duration::try_from(parse_spec(s)?)?)`
parse_duration(s) ==
    LET spec == parse_spec(s) IN
    IF spec.t = "Ok" THEN try_from(spec.unit, spec.v) ELSE Err(spec.t)

\* Longest digit string enumerated exhaustively as a duration literal.
MaxNumLen == 2

\* Numbers next to the overflow limits: u64::MAX / k and u64::MAX / k + 1
\* for k = 1, 60, 3600, 86400 and 604800.
BigNumbers ==
    { <<"3", "0", "5", "0", "0", "5", "6", "8", "9", "0", "4", "9", "4", "3">>,
      <<"3", "0", "5", "0", "0", "5", "6", "8", "9", "0", "4", "9", "4", "4">>,
      <<"2", "1", "3", "5", "0", "3", "9", "8", "2", "3", "3", "4", "6", "0", "1">>,
      <<"2", "1", "3", "5", "0", "3", "9", "8", "2", "3", "3", "4", "6", "0", "2">>,
      <<"5", "1", "2", "4", "0", "9", "5", "5", "7", "6", "0", "3", "0", "4", "3", "1">>,
      <<"5", "1", "2", "4", "0", "9", "5", "5", "7", "6", "0", "3", "0", "4", "3", "2">>,
      <<"3", "0", "7", "4", "4", "5", "7", "3", "4", "5", "6", "1", "8", "2", "5", "8", "6", "0">>,
      <<"3", "0", "7", "4", "4", "5", "7", "3", "4", "5", "6", "1", "8", "2", "5", "8", "6", "1">>,
      <<"1", "8", "4", "4", "6", "7", "4", "4", "0", "7", "3", "7", "0", "9", "5", "5", "1", "6", "1", "5">>,
      <<"1", "8", "4", "4", "6", "7", "4", "4", "0", "7", "3", "7", "0", "9", "5", "5", "1", "6", "1", "6">> }

DurationInputs ==
    { n \o u : n \in Strings(Digits, MaxNumLen) \cup BigNumbers,
               u \in {<<>>, <<"s">>, <<"m">>, <<"h">>, <<"d">>, <<"w">>,
                      <<"x">>, <<"s", "s">>} }

\* The update command is not running while a single call is followed.
CmdIdle ==
    /\ pc = "call"
    /\ opts = [ip |-> None, ipv6 |-> None, preflight_ip |-> FALSE,
               preflight_opts |-> NoOpts, schedule |-> None, verbose |-> FALSE]
    /\ service = NoService
    /\ prev_ip = UNSPECIFIED
    /\ cur = Event(0, UNSPECIFIED)
    /\ log = <<>>
    /\ clock = 0
    /\ sleepFor = None
    /\ result = "none"
    /\ lookups = 0
    /\ n_ipv4 = 0
    /\ n_update = 0

Call(fn, in) == [fn |-> fn, in |-> in, out |-> <<>>, done |-> FALSE]

InitDuration ==
    /\ CmdIdle
    /\ call \in {Call("parse_duration", s) : s \in DurationInputs}

\* --schedule's parser is applied to the literal.
call_parse_duration ==
    /\ call.fn = "parse_duration" /\ ~call.done
    /\ call' = [call EXCEPT !.out = parse_duration(call.in), !.done = TRUE]
    /\ UNCHANGED cmd_vars

NextDuration == call_parse_duration

SpecDuration == InitDuration /\ [][NextDuration]_vars

\* ------------------------------------------------------ public_ip/lib.rs
\* char::is_whitespace, as far as the inputs go.
WhiteSpace == {" ", "\t", "\n"}

\* Mutant: whitespace is trimmed on both sides (str::trim).
RECURSIVE trim(_)
trim(s) ==
    IF s # <<>> /\ Last(s) \in WhiteSpace THEN trim(Front(s))
    ELSE IF s # <<>> /\ Head(s) \in WhiteSpace THEN trim(Tail(s))
    ELSE s

\* str::trim_end
RECURSIVE trim_end(_)
trim_end(s) ==
    IF s # <<>> /\ Last(s) \in WhiteSpace THEN trim_end(Front(s)) ELSE s

\* The value of a short run of decimal digits.
RECURSIVE DigitsToNat(_)
DigitsToNat(ds) ==
    IF ds = <<>> THEN 0 ELSE DigitsToNat(Front(ds)) * 10 + DigitVal[Last(ds)]

\* <Ipv4Addr as FromStr>::from_str: n more octets of 1 to 3 digits, at most
\* 255 and without a zero prefix, separated by '.', up to the end of s.
RECURSIVE read_octets(_, _)
read_octets(s, n) ==
    LET ds == PrefixIn(s, Digits)
        r == Drop(s, Len(ds))
        bad == [ok |-> FALSE, v |-> <<>>]
    IN  IF \/ ds = <<>> \/ Len(ds) > 3
           \/ (Len(ds) > 1 /\ Head(ds) = "0")
           \/ DigitsToNat(ds) > 255
        THEN bad
        ELSE IF n = 1
        THEN IF r = <<>> THEN [ok |-> TRUE, v |-> <<DigitsToNat(ds)>>] ELSE bad
        ELSE IF r = <<>> \/ Head(r) # "." THEN bad
        ELSE LET t == read_octets(Tail(r), n - 1) IN
             IF t.ok THEN [ok |-> TRUE, v |-> <<DigitsToNat(ds)>> \o t.v]
             ELSE bad

\* str::parse::<Ipv4Addr>() with the `?` that turns AddrParseError into
\* Error::ParseAddr.
parse_ipv4(s) ==
    LET r == read_octets(s, 4) IN
    IF r.ok THEN Ok(r.v) ELSE Err("ParseAddr")

\* get: the request fails (Error::Http), the status is not a success
\* (Error::HttpBadResponse) or the response is handed on.
get(response) ==
    CASE response.status = "neterr" -> Err("Http")
      [] response.status = "bad" -> Err("HttpBadResponse")
      [] OTHER -> Ok(response.body)

\* Service::ipv4, PlainText arm: `Ok(body.trim_end().parse()?)`
plain_text_ipv4(response) ==
    LET res == get(response) IN
    IF res.t = "Ok" THEN parse_ipv4(trim_end(res.v)) ELSE res

Panic(msg) == [t |-> "panic", v |-> msg]

\* Service::ipv4, Dns arm: the first answer of the reply is decoded by the
\* record type that was asked for; expect() panics on any other record.
dns_ipv4(record_type, reply) ==
    IF reply.err THEN Err("DnsClient")
    ELSE IF reply.answers = <<>> THEN Err("MissingResponse")
    ELSE LET rdata == Head(reply.answers) IN
         CASE record_type = "A" ->
                IF rdata.type = "A" THEN Ok(rdata.a)
                ELSE Panic("expected A record")
           [] record_type = "TXT" ->
                IF rdata.type = "TXT" THEN parse_ipv4(rdata.txt)
                ELSE Panic("expected TXT record")
           [] OTHER -> Panic("not implemented")

\* Longest response body enumerated exhaustively.
MaxBodyLen == 9
\* Most whitespace characters put around a sample body.
MaxPad == 1
\* Most answer records in a DNS reply.
MaxAnswers == 2

\* Sample bodies: addresses and near misses.
SampleBodies ==
    { <<"1", "9", "2", ".", "0", ".", "2", ".", "1">>, <<"0", ".", "0", ".", "0", ".", "0">>, <<"2", "5", "5", ".", "2", "5", "5", ".", "2", "5", "5", ".", "2", "5", "5">>,
      <<"2", "5", "6", ".", "0", ".", "0", ".", "1">>, <<"1", ".", "2", ".", "3">>, <<"1", ".", "2", ".", "3", ".", "4", ".", "5">>,
      <<"1", ".", "2", ".", "3", ".", "4", "x">>, <<"1", ".", "2", " ", ".", "3", ".", "4">>, <<"a", "b", "c">> }

Bodies ==
    Strings({"1", ".", " "}, MaxBodyLen)
    \cup { l \o b \o t : l \in Strings(WhiteSpace, MaxPad), b \in SampleBodies,
                         t \in Strings(WhiteSpace, MaxPad) }

Responses ==
    { [status |-> "ok", body |-> b] : b \in Bodies }
    \cup { [status |-> st, body |-> <<>>] : st \in {"bad", "neterr"} }

\* Answer records: A, TXT and, standing for every other type, CNAME.
Records ==
    { [type |-> "A", a |-> a, txt |-> <<>>] : a \in {<<192, 0, 2, 1>>, <<0, 0, 0, 0>>} }
    \cup { [type |-> "TXT", a |-> <<>>, txt |-> t] :
             t \in {<<"1", "9", "2", ".", "0", ".", "2", ".", "1">>, <<"1", "9", "2", ".", "0", ".", "2", ".", "1">> \o <<" ">>, <<"a", "b", "c">>, <<>>} }
    \cup { [type |-> "CNAME", a |-> <<>>, txt |-> <<>>] }

RECURSIVE SeqsOf(_, _)
SeqsOf(S, n) ==
    IF n = 0 THEN {<<>>}
    ELSE LET T == SeqsOf(S, n - 1) IN T \cup {Append(t, x) : t \in T, x \in S}

Replies ==
    { [err |-> FALSE, answers |-> as] : as \in SeqsOf(Records, MaxAnswers) }
    \cup { [err |-> TRUE, answers |-> <<>>] }

InitResolve ==
    /\ CmdIdle
    /\ call \in {Call("plain_text", r) : r \in Responses}
           \cup {Call("dns", [record_type |-> rt, reply |-> r]) :
                   rt \in {"A", "TXT"}, r \in Replies}

\* Service::ipv4 of a PlainText service receives the response.
call_plain_text_ipv4 ==
    /\ call.fn = "plain_text" /\ ~call.done
    /\ call' = [call EXCEPT !.out = plain_text_ipv4(call.in), !.done = TRUE]
    /\ UNCHANGED cmd_vars

\* Service::ipv4 of a Dns service receives the reply.
call_dns_ipv4 ==
    /\ call.fn = "dns" /\ ~call.done
    /\ call' = [call EXCEPT !.out = dns_ipv4(call.in.record_type, call.in.reply),
                            !.done = TRUE]
    /\ UNCHANGED cmd_vars

NextResolve ==
    \/ call_plain_text_ipv4
    \/ call_dns_ipv4

SpecResolve == InitResolve /\ [][NextResolve]_vars

\* ------------------------------------------------------ check_ip_opts.rs
\* nom's IResult: Ok((rest, v)) or Err.
Parsed(rest, v) == [ok |-> TRUE, rest |-> rest, v |-> v]
Failed == [ok |-> FALSE, rest |-> <<>>, v |-> <<>>]

\* nom::bytes::complete::tag
tag(t, i) ==
    IF Len(i) >= Len(t) /\ SubSeq(i, 1, Len(t)) = t
    THEN Parsed(Drop(i, Len(t)), t) ELSE Failed

\* Mutant: no whitespace is skipped where space0 stands.
space0_none(i) == Parsed(i, <<>>)

\* nom::character::complete::space0: zero or more spaces and tabs.
space0(i) ==
    LET w == PrefixIn(i, {" ", "\t"}) IN Parsed(Drop(i, Len(w)), w)

\* nom::character::complete::space1: one or more spaces and tabs.
space1(i) ==
    LET w == PrefixIn(i, {" ", "\t"}) IN
    IF w = <<>> THEN Failed ELSE Parsed(Drop(i, Len(w)), w)

\* The only element of a one-element set; { e(x) : x \in {v} } gives the
\* value v the name x in e.
The(S) == CHOOSE x \in S : TRUE

\* The longest prefix of s with no character in A.
PrefixNotIn(s, A) ==
    SubSeq(s, 1, CHOOSE n \in 0..Len(s) :
                   /\ \A k \in 1..n : s[k] \notin A
                   /\ n = Len(s) \/ s[n + 1] \in A)

\* nom::bytes::complete::is_not: one or more characters outside A.
is_not(A, i) ==
    LET w == PrefixNotIn(i, A) IN
    IF w = <<>> THEN Failed ELSE Parsed(Drop(i, Len(w)), w)

\* nom::combinator::rest: all that is left, never an error.
rest(i) == Parsed(<<>>, i)

\* nom::combinator::map_res applied to the result r of a parser and the
\* Result res of the conversion of r.v: an Err is a parse error.
map_res(r, res) ==
    IF r.ok /\ res.t = "Ok" THEN Parsed(r.rest, res.v) ELSE Failed

\* nom::combinator::opt applied at input i to the result r of a parser.
opt(i, r) == IF r.ok THEN Parsed(r.rest, [some |-> TRUE, v |-> r.v])
             ELSE Parsed(i, [some |-> FALSE, v |-> <<>>])

\* nom::combinator::all_consuming
all_consuming(r) == IF r.ok /\ r.rest = <<>> THEN r ELSE Failed

Lower ==
    { "a", "b", "c", "d", "e", "f", "g", "h", "i", "j", "k", "l", "m",
      "n", "o", "p", "q", "r", "s", "t", "u", "v", "w", "x", "y", "z" }
Upper ==
    { "A", "B", "C", "D", "E", "F", "G", "H", "I", "J", "K", "L", "M",
      "N", "O", "P", "Q", "R", "S", "T", "U", "V", "W", "X", "Y", "Z" }
LowerSeq ==
    << "a", "b", "c", "d", "e", "f", "g", "h", "i", "j", "k", "l", "m",
       "n", "o", "p", "q", "r", "s", "t", "u", "v", "w", "x", "y", "z" >>
UpperSeq ==
    << "A", "B", "C", "D", "E", "F", "G", "H", "I", "J", "K", "L", "M",
       "N", "O", "P", "Q", "R", "S", "T", "U", "V", "W", "X", "Y", "Z" >>
\* char::to_ascii_lowercase on an upper-case letter.
ToLower == [c \in Upper |->
              LowerSeq[CHOOSE k \in 1..Len(UpperSeq) : UpperSeq[k] = c]]
to_lowercase(s) ==
    [k \in 1..Len(s) |-> IF s[k] \in Upper THEN ToLower[s[k]] ELSE s[k]]

\* s cut at every occurrence of the character sep (str::split).
RECURSIVE Split(_, _)
Split(s, sep) ==
    LET w == PrefixNotIn(s, {sep}) IN
    IF Len(w) = Len(s) THEN <<s>>
    ELSE <<w>> \o Split(Drop(s, Len(w) + 1), sep)

NotTabOrNewline(c) == c \notin {"\t", "\n"}

TrimStart(s, A) ==
    Drop(s, CHOOSE n \in 0..Len(s) :
              /\ \A k \in 1..n : s[k] \in A
              /\ n = Len(s) \/ s[n + 1] \notin A)

TrimEnd(s, A) ==
    SubSeq(s, 1, CHOOSE n \in 0..Len(s) :
                   /\ \A k \in (n + 1)..Len(s) : s[k] \in A
                   /\ n = 0 \/ s[n] \notin A)

\* `i.parse()` to a Url (url::Url::from_str): tabs and newlines are dropped,
\* spaces at both ends are trimmed, a scheme followed by ':' is required;
\* an http(s) URL needs a host without spaces and gets the path "/" when it
\* has none; any other scheme keeps what follows as an opaque path.
parse_url(s) ==
    LET t == TrimEnd(TrimStart(SelectSeq(s, NotTabOrNewline), {" "}), {" "})
        scheme == PrefixIn(t, Lower \cup Upper \cup Digits \cup {"+", "-", "."})
        after == Drop(t, Len(scheme))
    IN  IF scheme = <<>> \/ Head(scheme) \notin Lower \cup Upper
           \/ after = <<>> \/ Head(after) # ":"
        THEN Err("RelativeUrlWithoutBase")
        ELSE IF to_lowercase(scheme) \in {<<"h", "t", "t", "p">>,
                                          <<"h", "t", "t", "p", "s">>}
        THEN LET a == TrimStart(Tail(after), {"/", "\\"})
                 host == PrefixNotIn(a, {"/", "?", "#"})
                 path == Drop(a, Len(host))
             IN  IF host = <<>> THEN Err("EmptyHost")
                 ELSE IF \E k \in 1..Len(host) : host[k] = " "
                 THEN Err("InvalidDomainCharacter")
                 ELSE Ok([scheme |-> to_lowercase(scheme),
                          host |-> to_lowercase(host),
                          path |-> IF path = <<>> THEN <<"/">> ELSE path])
        ELSE Ok([scheme |-> to_lowercase(scheme), host |-> <<>>,
                 path |-> Tail(after)])

\* `i.parse()` to a Name (trust-dns Name::from_str): labels separated by
\* '.', made of letters, digits and '-', lower-cased; a final '.' makes the
\* name fully qualified; whitespace and empty inner labels are errors.
parse_name(s) ==
    LET fqdn == s # <<>> /\ Last(s) = "."
        labels == IF s = <<>> \/ s = <<".">> THEN <<>>
                  ELSE Split(IF fqdn THEN Front(s) ELSE s, ".")
    IN  IF \A k \in 1..Len(labels) :
              /\ labels[k] # <<>>
              /\ \A j \in 1..Len(labels[k]) :
                    labels[k][j] \in Lower \cup Upper \cup Digits \cup {"-"}
        THEN Ok([labels |-> [k \in 1..Len(labels) |-> to_lowercase(labels[k])],
                 fqdn |-> fqdn])
        ELSE Err("ProtoError")

\* <DnsRecordType as FromStr>::from_str, upper and lower case alike (mutant).
DnsRecordType_from_str_any_case(s) ==
    IF s \in {<<"A">>, <<"a">>} THEN Ok("A")
    ELSE IF to_lowercase(s) = <<"t", "x", "t">> THEN Ok("TXT")
    ELSE Err("ParseDnsRecordTypeError")

\* <DnsRecordType as FromStr>::from_str: exactly "A" or "TXT".
DnsRecordType_from_str(s) ==
    CASE s = <<"A">> -> Ok("A")
      [] s = <<"T", "X", "T">> -> Ok("TXT")
      [] OTHER -> Err("ParseDnsRecordTypeError")

\* `s.parse()` to an IpAddr: the Ipv4 literals (no Ipv6 literal is among
\* the inputs).
parse_ip_addr(s) ==
    LET r == parse_ipv4(s) IN
    IF r.t = "Ok" THEN Ok(r.v) ELSE Err("AddrParseError")

\* u16::MAX, the largest port.
U16_MAX == 65535

\* `s.parse()` to a SocketAddr: an Ipv4 literal, ':' and a port of 1 to 5
\* digits that fits u16.
parse_socket_addr(s) ==
    LET parts == Split(s, ":") IN
    IF Len(parts) # 2 THEN Err("AddrParseError")
    ELSE LET ip == parse_ipv4(parts[1])
             port == parts[2]
         IN  IF /\ ip.t = "Ok"
                /\ port # <<>> /\ Len(port) <= 5
                /\ PrefixIn(port, Digits) = port
                /\ DigitsToNat(port) <= U16_MAX
             THEN Ok([ip |-> ip.v, port |-> DigitsToNat(port)])
             ELSE Err("AddrParseError")

\* Mutant: the host name is tried before the bare IP.
Server_from_str_host_first(s) ==
    LET sa == parse_socket_addr(s)
        ip == parse_ip_addr(s)
        name == parse_name(s)
    IN  IF sa.t = "Ok" THEN Ok([kind |-> "SocketAddr", v |-> sa.v])
        ELSE IF name.t = "Ok" THEN Ok([kind |-> "Host", v |-> name.v])
        ELSE IF ip.t = "Ok" THEN Ok([kind |-> "Ip", v |-> ip.v])
        ELSE Err("ParseServerError")

\* <Server as FromStr>::from_str: SocketAddr, then IpAddr, then Name.
Server_from_str(s) ==
    LET sa == parse_socket_addr(s)
        ip == parse_ip_addr(s)
        name == parse_name(s)
    IN  IF sa.t = "Ok" THEN Ok([kind |-> "SocketAddr", v |-> sa.v])
        ELSE IF ip.t = "Ok" THEN Ok([kind |-> "Ip", v |-> ip.v])
        ELSE IF name.t = "Ok" THEN Ok([kind |-> "Host", v |-> name.v])
        ELSE Err("ParseServerError")

\* nom::sequence::preceded / terminated, applied to the result r of the
\* first parser and the result q of the second parser at r.rest.
preceded(r, q) == IF r.ok THEN q ELSE Failed
terminated(r, q) == IF r.ok /\ q.ok THEN Parsed(q.rest, r.v) ELSE Failed

\* nom::branch::alt over the results of the alternatives, in order.
alt(rs) ==
    The({ IF \E k \in 1..Len(r) : r[k].ok
          THEN r[CHOOSE k \in 1..Len(r) :
                   r[k].ok /\ \A j \in 1..(k - 1) : ~r[j].ok]
          ELSE Failed : r \in {rs} })

\* fn url: map_res(rest, |i| i.parse())
url(i) == map_res(rest(i), parse_url(rest(i).v))

\* fn json: "json:", optional blanks, the key up to a blank, blanks, url.
json(i) ==
    The({ The({ The({
        IF u.ok THEN Parsed(u.rest, <<key.v, u.v>>) ELSE Failed
      : u \in { preceded(key, url(key.rest)) } })
      : key \in { LET k == is_not({" ", "\t"}, colon.rest) IN
                  preceded(colon, terminated(k, space1(k.rest))) } })
      : colon \in { LET t == tag(<<"j", "s", "o", "n", ":">>, i) IN
                    terminated(t, space0(t.rest)) } })

\* fn dns: "@", the server token, blanks, optionally a record type and
\* blanks, and the rest as the name.
dns(i) ==
    The({ The({ The({
        IF server.ok /\ name.ok
        THEN Parsed(name.rest,
                    <<server.v,
                      IF record_type.v.some THEN record_type.v.v ELSE "None",
                      name.v>>)
        ELSE Failed
      : name \in { map_res(rest(record_type.rest),
                           parse_name(record_type.rest)) } })
      : record_type \in {
          The({ opt(server.rest,
                    terminated(map_res(token, DnsRecordType_from_str(token.v)),
                               space1(token.rest)))
              : token \in { is_not({" ", "\t"}, server.rest) } }) } })
      : server \in {
          The({ preceded(tag(<<"@">>, i),
                         terminated(map_res(token, Server_from_str(token.v)),
                                    space1(token.rest)))
              : token \in { is_not({" ", "\t"}, tag(<<"@">>, i).rest) } }) } })

PlainTextOpts(u) == [kind |-> "PlainText", url |-> u]
JsonOpts(u, key) == [kind |-> "Json", url |-> u, key |-> key]
DnsOpts(server, record_type, name) ==
    [kind |-> "Dns", server |-> server, record_type |-> record_type,
     name |-> name]

\* The three alternatives of ip_opts, mapped to their CheckIpOpts variant.
json_opts(i) ==
    LET r == json(i) IN
    IF r.ok THEN Parsed(r.rest, JsonOpts(r.v[2], r.v[1])) ELSE Failed
dns_opts(i) ==
    LET r == dns(i) IN
    IF r.ok THEN Parsed(r.rest, DnsOpts(r.v[1], r.v[2], r.v[3])) ELSE Failed
url_opts(i) ==
    LET r == url(i) IN
    IF r.ok THEN Parsed(r.rest, PlainTextOpts(r.v)) ELSE Failed

\* Mutant: the plain URL is tried first.
ip_opts_url_first(i) ==
    all_consuming(alt(<<url_opts(i), json_opts(i), dns_opts(i)>>))

\* fn ip_opts: all_consuming(alt((json, dns, url)))
ip_opts(i) == all_consuming(alt(<<json_opts(i), dns_opts(i), url_opts(i)>>))

\* <CheckIpOpts as FromStr>::from_str
CheckIpOpts_from_str(s) ==
    LET r == ip_opts(s) IN
    IF r.ok THEN Ok(r.v) ELSE Err("ParseIpOptsError")

\* The port of a DNS server given without one.
DnsPort == 53

\* What lookup_host((name, 53)) can give: an error, no address, or a first
\* address.
LookupResults ==
    { Err("io"), Ok(<<>>),
      Ok(<<[ip |-> <<198, 51, 100, 1>>, port |-> DnsPort]>>) }

\* Server::into_socket_addr, given what lookup_host would answer.
Server_into_socket_addr(server, found) ==
    CASE server.kind = "Host" ->
           IF found.t # "Ok" THEN found
           ELSE IF found.v = <<>> THEN Err("NotFound")
           ELSE Ok(Head(found.v))
      [] server.kind = "Ip" -> Ok([ip |-> server.v, port |-> DnsPort])
      [] server.kind = "SocketAddr" -> Ok(server.v)

\* The lookup_host calls Server::into_socket_addr makes.
Server_lookups(server) == IF server.kind = "Host" THEN 1 ELSE 0

\* CheckIpOpts::into_service, given what lookup_host would answer.
CheckIpOpts_into_service(o, found) ==
    CASE o.kind = "PlainText" -> Ok([kind |-> "PlainText", url |-> o.url])
      [] o.kind = "Json" ->
           Ok([kind |-> "Json", url |-> o.url, key |-> o.key])
      [] o.kind = "Dns" ->
           LET addr == Server_into_socket_addr(o.server, found) IN
           IF addr.t = "Ok"
           THEN Ok([kind |-> "Dns", server |-> addr.v,
                    record_type |-> IF o.record_type = "None" THEN "A"
                                    ELSE o.record_type,
                    name |-> o.name])
           ELSE addr

\* Longest run of spaces between the tokens of a service specification.
MaxBlanks == 1

Blanks == { [k \in 1..n |-> " "] : n \in 0..MaxBlanks } \cup { <<"\t">> }

OptsPrefixes == { <<>>, <<"j", "s", "o", "n", ":">>, <<"@">> }

OptsTokens ==
    { <<>>,
      <<"i", "p">>,
      <<"A">>,
      <<"T", "X", "T">>,
      <<"t", "x", "t">>,
      <<"e", "x", "a", "m", "p", "l", "e", ".", "c", "o", "m">>,
      <<"1", "9", "2", ".", "0", ".", "2", ".", "1">>,
      <<"1", "9", "2", ".", "0", ".", "2", ".", "1", ":", "5", "3">>,
      <<"h", "t", "t", "p", ":", "/", "/",
        "e", "x", "a", "m", "p", "l", "e", ".", "c", "o", "m", "/">> }

\* Service specifications: a prefix and up to three tokens with blanks
\* between them.
OptsInputs ==
    { p \o w0 \o t1 \o w1 \o t2 \o w2 \o t3 :
        p \in OptsPrefixes, w0 \in Blanks, t1 \in OptsTokens, w1 \in Blanks,
        t2 \in OptsTokens, w2 \in Blanks, t3 \in OptsTokens }

InitOpts ==
    /\ CmdIdle
    /\ call \in {Call("from_str", s) : s \in OptsInputs}

\* The service specification is parsed (structopt's from_str).
call_from_str ==
    /\ call.fn = "from_str" /\ ~call.done
    /\ call' = [call EXCEPT !.out = CheckIpOpts_from_str(call.in),
                            !.done = TRUE]
    /\ UNCHANGED cmd_vars

\* run: `opts.into_service().await?` on the parsed specification.
call_into_service ==
    /\ call.fn = "from_str" /\ call.done /\ call.out.t = "Ok"
    /\ \E found \in LookupResults :
         call' = [fn |-> "into_service",
                  in |-> [s |-> call.in, opts |-> call.out.v],
                  out |-> CheckIpOpts_into_service(call.out.v, found),
                  done |-> TRUE]
    /\ lookups' = lookups + (IF call.out.v.kind = "Dns"
                             THEN Server_lookups(call.out.v.server) ELSE 0)
    /\ UNCHANGED <<pc, opts, service, prev_ip, cur, log, clock, sleepFor,
                   result, n_ipv4, n_update>>

NextOpts == call_from_str \/ call_into_service

SpecOpts == InitOpts /\ [][NextOpts]_vars

\* ================================================================ claims
Ticks == 1..Len(log)
SchedPreflight == Scheduled /\ Preflight
SchedUnconditional == Scheduled /\ ~Preflight /\ pc \in {"loop", "sleep"}

\* The tick after log[i] began d seconds after log[i] did, with one sleep
\* of d in between (or that sleep is still in progress / just finished).
SleptThenNext(i, d) ==
    /\ log[i].sleep = d
    /\ i < Len(log) => log[i + 1].start = log[i].start + d
    /\ i = Len(log) =>
         \/ pc = "sleep" /\ sleepFor = d /\ clock = log[i].start
         \/ pc = "loop" /\ clock = log[i].start + d
         \/ pc = "preflight_update" /\ cur.start = log[i].start + d

C2_FailureKeepsPrevIp ==
    SchedPreflight =>
      /\ \A i \in Ticks :
           log[i].resolve = "err" =>
             IF i < Len(log) THEN log[i + 1].prev = log[i].prev
             ELSE prev_ip = log[i].prev
      /\ \A j, k \in Ticks :
           ( /\ j < k
             /\ \A m \in j..(k - 1) : log[m].resolve = "err"
             /\ log[k].resolve = "ok" /\ log[k].ip = log[j].prev )
           => log[k].update = "none"

C2_Witness ==
    /\ SchedPreflight /\ Len(log) = 3
    /\ log[1].resolve = "ok" /\ log[1].ip = 1 /\ log[1].update = "ok"
    /\ log[2].resolve = "err"
    /\ log[3].resolve = "ok" /\ log[3].ip = 1 /\ log[3].update = "none"

\* C3: in Preflight scheduled mode, after a tick whose resolution fails the
\* loop sleeps exactly min(tickInterval, 60 s), never more than 60 s nor
\* more than tickInterval, and the next tick starts by resolving again.
C3_BackoffSleep ==
    SchedPreflight =>
      \A i \in Ticks :
        log[i].resolve = "err" =>
          LET d == IF opts.schedule <= 60 THEN opts.schedule ELSE 60 IN
          /\ d <= 60 /\ d <= opts.schedule
          /\ SleptThenNext(i, d)
          /\ i < Len(log) => log[i + 1].resolve # "none"
          /\ (i = Len(log) /\ pc = "preflight_update") => cur.resolve = "ok"

C3_Witness ==
    /\ SchedPreflight /\ opts.schedule = 61 /\ Len(log) >= 2
    /\ log[1].resolve = "err" /\ log[1].sleep = 60
    /\ log[2].start = 60 /\ log[2].resolve # "none"

\* C4: in scheduled mode, after every successful tick (update performed,
\* update skipped, or unconditional update attempted, failed or not) the
\* loop sleeps exactly the full tickInterval, once, before the next tick;
\* no tick starts without a sleep since the previous one.
SuccessfulTick(e) ==
    IF Preflight THEN e.resolve = "ok" /\ e.update \in {"ok", "none"}
    ELSE e.update \in {"ok", "err"}

C4_FullIntervalSleep ==
    /\ [](Scheduled =>
            \A i \in Ticks :
              SuccessfulTick(log[i]) => SleptThenNext(i, opts.schedule))
    /\ [][(Scheduled /\ Len(log') > Len(log) /\ SuccessfulTick(log'[Len(log')]))
            => pc' = "sleep" /\ sleepFor' = opts.schedule]_vars
    /\ [][(Scheduled /\ pc' = "loop" /\ pc # "loop") => pc \in {"sleep", "run"}]_vars

C4_Witness ==
    /\ Scheduled /\ ~Preflight /\ opts.schedule = 61 /\ Len(log) = 2
    /\ log[1].update = "err" /\ log[1].sleep = 61
    /\ log[2].start = 61

\* C5 as stated: after a failed update for a newly resolved address X, a
\* later tick that resolves X again (nothing else resolved in between) is
\* skipped.
C5_FailedUpdateStillRecorded ==
    SchedPreflight =>
      \A i, j \in Ticks :
        ( /\ i < j /\ log[i].update = "err"
          /\ log[j].resolve = "ok" /\ log[j].ip = log[i].ip
          /\ \A m \in (i + 1)..(j - 1) :
               log[m].resolve = "err" \/ log[m].ip = log[i].ip )
        => log[j].update = "none"

\* C5 (amended): a failed update call for a newly resolved address X leaves
\* lastKnownAddress at its previous value, so a later tick that resolves X
\* again, no update having succeeded in between, issues an update call
\* carrying X again.
C5_FailedUpdateNotRecorded ==
    SchedPreflight =>
      /\ \A i \in Ticks :
           log[i].update = "err" =>
             /\ log[i].ip # log[i].prev
             /\ IF i < Len(log) THEN log[i + 1].prev = log[i].prev
                ELSE prev_ip = log[i].prev
      /\ \A i, j \in Ticks :
           ( /\ i < j /\ log[i].update = "err"
             /\ log[j].resolve = "ok" /\ log[j].ip = log[i].ip
             /\ \A m \in (i + 1)..(j - 1) : log[m].update # "ok" )
           => log[j].update # "none" /\ log[j].args.ipv4 = log[i].ip

C5_Witness ==
    /\ SchedPreflight /\ Len(log) = 2
    /\ log[1].resolve = "ok" /\ log[1].ip = 1 /\ log[1].update = "err"
    /\ log[2].resolve = "ok" /\ log[2].ip = 1 /\ log[2].update = "ok"
    /\ prev_ip = 1

\* C6: once the scheduled loop is entered run never returns: no resolution
\* error and no update error leaves the loop; each is logged and the loop
\* goes on to sleep and to a later tick.
LoopPcs == {"loop", "preflight_update", "sleep"}

C6_LoopNeverReturns ==
    /\ []((Scheduled /\ (Len(log) > 0 \/ pc \in LoopPcs))
            => pc # "returned" /\ result = "none")
    /\ [](Scheduled =>
            \A i \in Ticks :
              (log[i].resolve = "err" \/ log[i].update = "err") =>
                /\ log[i].logged = "error"
                /\ log[i].sleep # None
                /\ i = Len(log) => pc \in LoopPcs)
    /\ [][(Scheduled /\ pc \in LoopPcs) => pc' # "returned" /\ result' = "none"]_vars

C6_Witness ==
    /\ SchedPreflight /\ Len(log) = 3 /\ pc = "sleep"
    /\ log[1].resolve = "err"
    /\ log[2].update = "err"
    /\ log[3].update = "ok"

\* C7: in Unconditional scheduled mode every tick issues exactly one update
\* call and never calls a Resolver; a failed call is logged, changes no
\* scheduler state, and is followed by the same sleep as a success.
C7_UnconditionalTick ==
    SchedUnconditional =>
      /\ n_ipv4 = 0 /\ lookups = 0
      /\ n_update = Len(log)
      /\ prev_ip = 0 /\ service = NoService
      /\ \A i \in Ticks :
           /\ log[i].resolve = "none"
           /\ log[i].update \in {"ok", "err"}
           /\ log[i].update = "err" => log[i].logged = "error"
           /\ log[i].update = "ok" => log[i].logged = "info"
           /\ log[i].prev = 0
           /\ SleptThenNext(i, opts.schedule)

C7_Witness ==
    /\ SchedUnconditional /\ Len(log) = 2 /\ n_update = 2
    /\ log[1].update = "err" /\ log[1].logged = "error"
    /\ log[2].update = "ok"

\* C8 as stated: in Immediate mode run always issues exactly one update call
\* and returns that call's result or error.
C8_AlwaysOneUpdate ==
    (~Scheduled /\ pc = "returned") =>
      /\ n_update = 1
      /\ result \in {"Ok", "Err:update"}

\* C8 (amended): in Immediate mode run makes at most one resolution and at
\* most one update call. It returns IpOptError without an update call when
\* ip is an IPv6 address and ipv6 is given too; it returns the Resolver's
\* construction or resolution error without an update call; otherwise,
\* when it returns, it has issued exactly one update call and returns that
\* call's result or error.
C8_Immediate ==
    ~Scheduled =>
      /\ n_ipv4 <= 1 /\ n_update <= 1 /\ lookups <= 1
      /\ pc \in {"from_args", "usage_error", "run", "update_now",
                 "now_resolve", "now_update", "returned", "panicked"}
      /\ pc = "returned" =>
           /\ Len(log) = 1
           /\ result = "Err:IpOptError" <=> (IsV6(opts.ip) /\ opts.ipv6 # None)
           /\ result = "Err:IpOptError" => n_update = 0 /\ n_ipv4 = 0
           /\ result = "Err:io" => n_update = 0 /\ n_ipv4 = 0 /\ lookups = 1
           /\ result = "Err:resolve" =>
                n_update = 0 /\ n_ipv4 = 1 /\ log[1].resolve = "err"
           /\ result \in {"Ok", "Err:update"} =>
                /\ n_update = 1
                /\ log[1].update = (IF result = "Ok" THEN "ok" ELSE "err")
                /\ n_ipv4 = 1 <=> log[1].resolve = "ok"
                /\ log[1].resolve = "ok" => log[1].args.ipv4 = log[1].ip
           /\ result \in {"Ok", "Err:update", "Err:IpOptError", "Err:io",
                          "Err:resolve"}

C8_Witness ==
    /\ ~Scheduled /\ pc = "returned" /\ result = "Err:update"
    /\ n_ipv4 = 1 /\ n_update = 1
    /\ log[1].resolve = "ok" /\ log[1].args.ipv4 = 2

\* The first tick of the log whose resolution succeeded.
FirstOk(k) ==
    /\ log[k].resolve = "ok"
    /\ \A m \in 1..(k - 1) : log[m].resolve # "ok"

\* C9 as stated: whatever address the first successful resolution returns,
\* an update call carrying it is issued on that tick.
C9_FirstAlwaysChanged ==
    SchedPreflight =>
      \A k \in Ticks :
        FirstOk(k) => log[k].update # "none" /\ log[k].args.ipv4 = log[k].ip

\* C9 (amended): lastKnownAddress starts as 0.0.0.0 and the first successful
\* resolution counts as changed when it returns any address other than
\* 0.0.0.0: an update call carrying it is issued on that tick. When it
\* returns 0.0.0.0 no update call is issued.
C9_FirstResolution ==
    SchedPreflight =>
      /\ (\A m \in Ticks : log[m].resolve # "ok") => prev_ip = 0
      /\ \A k \in Ticks :
           FirstOk(k) =>
             /\ log[k].prev = 0
             /\ log[k].ip # 0 =>
                  log[k].update # "none" /\ log[k].args.ipv4 = log[k].ip
             /\ log[k].ip = 0 => log[k].update = "none"
      /\ (pc = "preflight_update" /\ \A m \in Ticks : log[m].resolve # "ok")
           => cur.ip # 0 /\ cur.args.ipv4 = cur.ip

C9_Witness ==
    /\ SchedPreflight /\ Len(log) = 2
    /\ log[1].resolve = "err"
    /\ log[2].resolve = "ok" /\ log[2].ip = 2 /\ log[2].prev = 0
    /\ log[2].update = "ok" /\ log[2].args.ipv4 = 2

\* C10: in Unconditional scheduled mode every tick's update call carries the
\* configured options: the fixed IP if there is one, otherwise no address,
\* and the verbose flag; they are the same on every tick.
C10_StaticOptions ==
    SchedUnconditional =>
      /\ \A i \in Ticks :
           /\ log[i].args.ipv4 = (IF IsV4(opts.ip) THEN opts.ip ELSE None)
           /\ log[i].args.ipv6 =
                (IF IsV6(opts.ip) THEN opts.ip ELSE opts.ipv6)
           /\ log[i].args.verbose = opts.verbose
      /\ \A i, j \in Ticks : log[i].args = log[j].args

C10_Witness ==
    /\ SchedUnconditional /\ opts.verbose /\ Len(log) = 2
    /\ log[1].update = "ok" /\ log[1].args = UpdateOptions_verbose
    /\ log[2].update = "err" /\ log[2].args = UpdateOptions_verbose

\* C19: for a Dns strategy whose server is a host name, lookup_host runs
\* exactly once, when the Resolver is constructed before the first tick:
\* not while the options are parsed and not again on any tick.
HostServer == opts.preflight_opts.kind = "Dns" /\ opts.preflight_opts.server = "Host"

C19_LookupOnce ==
    /\ HostServer =>
         /\ pc \in {"from_args", "usage_error", "run", "update_now"} => lookups = 0
         /\ pc \in {"now_resolve", "now_update", "panicked"} => lookups = 1
         /\ (Scheduled /\ pc \in LoopPcs \cup {"returned"}) => lookups = 1
         /\ Len(log) > 0 => lookups = 1
    /\ ~HostServer => lookups = 0

C19_Witness ==
    /\ HostServer /\ Scheduled /\ Len(log) = 3 /\ lookups = 1
    /\ log[1].resolve = "err"
    /\ log[2].resolve = "ok" /\ log[2].update = "err"
    /\ log[3].resolve = "ok"

\* C20: in Preflight scheduled mode lastKnownAddress is 0.0.0.0 until an
\* update call succeeds and from then on the address carried by the most
\* recent update call that succeeded, never one only resolved.
OkUpdates == {i \in Ticks : log[i].update = "ok"}
LastOkUpdate == CHOOSE i \in OkUpdates : \A j \in OkUpdates : j <= i

C20_PrevIpIsLastAcknowledged ==
    SchedPreflight =>
      IF OkUpdates = {} THEN prev_ip = 0
      ELSE prev_ip = log[LastOkUpdate].args.ipv4

C20_Witness ==
    /\ SchedPreflight /\ Len(log) = 3 /\ prev_ip = 1
    /\ log[1].update = "ok" /\ log[1].args.ipv4 = 1
    /\ log[2].resolve = "ok" /\ log[2].ip = 2 /\ log[2].update = "err"
    /\ log[3].resolve = "ok" /\ log[3].ip = 1 /\ log[3].update = "none"

\* The number and the unit of a well-formed literal <digits><unit>: digits
\* without a leading zero unless the number is exactly 0.
WellFormedLiteral(s) ==
    /\ Len(s) >= 2
    /\ Last(s) \in {"s", "m", "h", "d", "w"}
    /\ \A i \in 1..(Len(s) - 1) : s[i] \in Digits
    /\ s[1] = "0" => Len(s) = 2
LiteralNumber(s) == [i \in 1..(Len(s) - 1) |-> DigitVal[s[i]]]
UnitSeconds(c) ==
    CASE c = "s" -> 1 [] c = "m" -> 60 [] c = "h" -> 3600
      [] c = "d" -> 86400 [] c = "w" -> 604800
LiteralSeconds(s) == Mul(LiteralNumber(s), UnitSeconds(Last(s)))
ParsedDuration == call.fn = "parse_duration" /\ call.done

\* C17: a well-formed duration literal whose seconds fit 64 bits parses to
\* exactly digits times the unit's seconds (s=1, m=60, h=3600, d=86400,
\* w=604800); 1s, 5m, 12h, 2d, 4w give 1, 300, 43200, 172800, 2419200 s.
C17_DurationValue ==
    ParsedDuration =>
      /\ (WellFormedLiteral(call.in) /\ Leq(LiteralSeconds(call.in), U64_MAX))
           => call.out = [t |-> "Ok", v |-> LiteralSeconds(call.in)]
      /\ call.in = <<"1", "s">> => call.out.v = <<1>>
      /\ call.in = <<"5", "m">> => call.out.v = <<3, 0, 0>>
      /\ call.in = <<"1", "2", "h">> => call.out.v = <<4, 3, 2, 0, 0>>
      /\ call.in = <<"2", "d">> => call.out.v = <<1, 7, 2, 8, 0, 0>>
      /\ call.in = <<"4", "w">> => call.out.v = <<2, 4, 1, 9, 2, 0, 0>>

C17_Witness ==
    /\ ParsedDuration /\ call.in = <<"1", "2", "d">>
    /\ call.out = [t |-> "Ok", v |-> <<1, 0, 3, 6, 8, 0, 0>>]

\* C18: for a well-formed literal whose number fits 64 bits, the result is
\* Overflow exactly when number times unit seconds exceeds u64::MAX, and
\* then it is neither UnrecognizedInput nor a duration.
C18_OverflowExact ==
    (ParsedDuration /\ WellFormedLiteral(call.in)
       /\ Leq(LiteralNumber(call.in), U64_MAX)) =>
      /\ call.out.t = "Overflow" <=> ~Leq(LiteralSeconds(call.in), U64_MAX)
      /\ call.out.t \in {"Ok", "Overflow"}

C18_Witness ==
    /\ ParsedDuration
    /\ call.in = <<"3", "0", "5", "0", "0", "5", "6", "8", "9", "0", "4",
                   "9", "4", "4", "w">>
    /\ call.out.t = "Overflow"

\* C11 as stated: for the Dns strategy every reply makes resolve return an
\* address or an Error: no answers gives MissingResponse, a first answer of
\* type A its address, a first answer of type TXT its text parsed or
\* BadAddress; no reply makes resolve abort.
C11_DnsAlwaysReturns ==
    (call.fn = "dns" /\ call.done) =>
      LET reply == call.in.reply IN
      /\ call.out.t # "panic"
      /\ (~reply.err /\ reply.answers = <<>>) => call.out = Err("MissingResponse")
      /\ (~reply.err /\ reply.answers # <<>>) =>
           LET first == Head(reply.answers) IN
           /\ first.type = "A" => call.out = Ok(first.a)
           /\ first.type = "TXT" => call.out.t \in {"Ok", "ParseAddr"}

\* The dotted-decimal form of an address (its Display).
DigitChar == <<"0", "1", "2", "3", "4", "5", "6", "7", "8", "9">>
DecimalText(o) ==
    IF o = 0 THEN <<"0">>
    ELSE [i \in 1..Len(NatDigits(o)) |-> DigitChar[NatDigits(o)[i] + 1]]
Display(a) ==
    DecimalText(a[1]) \o <<".">> \o DecimalText(a[2]) \o <<".">>
      \o DecimalText(a[3]) \o <<".">> \o DecimalText(a[4])

\* The addresses whose octets can be written with the bodies' characters.
BodyAddrs ==
    { <<a, b, c, d>> : a, b, c, d \in {1, 11, 111} }
    \cup { <<192, 0, 2, 1>>, <<0, 0, 0, 0>>, <<255, 255, 255, 255>> }
DottedForms == { Display(a) : a \in BodyAddrs }

\* What is left of body b when whitespace is removed from its end and, with
\* lead, from its start too (every way of cutting only whitespace off).
Trimmed(b, lead) ==
    { SubSeq(b, j + 1, k) :
        <<j, k>> \in { p \in (0..Len(b)) \X (0..Len(b)) :
                         /\ p[1] <= p[2]
                         /\ lead \/ p[1] = 0
                         /\ \A i \in (1..p[1]) \cup ((p[2] + 1)..Len(b)) :
                              b[i] \in {" ", "\t", "\n"} } }

PlainTextDone == call.fn = "plain_text" /\ call.done /\ call.in.status = "ok"

\* C12 as stated: with a success status the PlainText strategy returns a
\* exactly when the body with leading and trailing whitespace removed is
\* the dotted-decimal form of a, and the bad-address error otherwise.
C12_TrimmedBothSides ==
    PlainTextDone =>
      LET F == Trimmed(call.in.body, TRUE) IN
      IF F \cap DottedForms # {}
      THEN call.out.t = "Ok" /\ Display(call.out.v) \in F
      ELSE call.out = Err("ParseAddr")

\* C12 (amended): with a success status the PlainText strategy returns a
\* exactly when the body with its trailing whitespace removed is the
\* dotted-decimal form of a; for every other body, one with leading
\* whitespace included, it returns the bad-address error.
C12_TrimmedEnd ==
    PlainTextDone =>
      LET F == Trimmed(call.in.body, FALSE) IN
      IF F \cap DottedForms # {}
      THEN call.out.t = "Ok" /\ Display(call.out.v) \in F
      ELSE call.out = Err("ParseAddr")

C12_Witness ==
    /\ PlainTextDone
    /\ call.in.body = <<"1", "9", "2", ".", "0", ".", "2", ".", "1">> \o <<"\n">>
    /\ call.out = Ok(<<192, 0, 2, 1>>)

\* Texts used below.
S_URL ==
    <<"h", "t", "t", "p", ":", "/", "/",
      "e", "x", "a", "m", "p", "l", "e", ".", "c", "o", "m", "/">>
S_HOST == <<"e", "x", "a", "m", "p", "l", "e", ".", "c", "o", "m">>
S_ADDR == <<"1", "9", "2", ".", "0", ".", "2", ".", "1">>

OptsParsed == call.fn = "from_str" /\ call.done
ServiceBuilt == call.fn = "into_service" /\ call.done
Blank == {" ", "\t"}
NoBlank(s) == \A k \in 1..Len(s) : s[k] \notin Blank
Whole(r) == r.ok /\ r.rest = <<>>

\* C13: the parse of a service specification is the result of the first of
\* the alternatives json, dns, url that matches the entire input, the
\* bad-format error when none does; every well-formed URL u (it parses as a
\* URL and has no blank in it) gives PlainText with the endpoint u.
C13_FirstWholeAlternative ==
    OptsParsed =>
      LET i == call.in
          expected ==
            IF Whole(json_opts(i)) THEN Ok(json_opts(i).v)
            ELSE IF Whole(dns_opts(i)) THEN Ok(dns_opts(i).v)
            ELSE IF Whole(url_opts(i)) THEN Ok(url_opts(i).v)
            ELSE Err("ParseIpOptsError")
      IN  /\ call.out = expected
          /\ (parse_url(i).t = "Ok" /\ NoBlank(i)) =>
                call.out = Ok(PlainTextOpts(parse_url(i).v))

C13_Witness ==
    /\ OptsParsed
    /\ call.in = S_URL
    /\ call.out = Ok(PlainTextOpts([scheme |-> <<"h", "t", "t", "p">>,
                                    host |-> S_HOST,
                                    path |-> <<"/">>]))

JsonTag == <<"j", "s", "o", "n", ":">>

\* C14: "json:" + k + " " + u and "json: " + k + " " + u, for a key k
\* without blanks and a URL u, both parse to Json with endpoint u and key k.
C14_JsonBothSpacings ==
    OptsParsed =>
      \A sp \in {<<>>, <<" ">>} : \A j \in 1..Len(call.in) :
        LET pre == JsonTag \o sp
            k == SubSeq(call.in, Len(pre) + 1, j - 1)
            u == Drop(call.in, j)
        IN  ( /\ j > Len(pre)
              /\ SubSeq(call.in, 1, Len(pre)) = pre
              /\ call.in[j] = " "
              /\ k # <<>> /\ NoBlank(k)
              /\ parse_url(u).t = "Ok" )
            => call.out = Ok(JsonOpts(parse_url(u).v, k))

C14_Witness ==
    /\ OptsParsed
    /\ call.in = JsonTag \o <<" ", "i", "p", " ">> \o S_URL
    /\ call.out.t = "Ok"
    /\ call.out.v.kind = "Json"
    /\ call.out.v.key = <<"i", "p">>
    /\ call.out.v.url = parse_url(S_URL).v

\* The pieces of an @ form: the server token, and what follows the blanks
\* after it, cut into its first token and the rest.
ServerToken(i) == PrefixNotIn(Tail(i), Blank)
AfterServer(i) == TrimStart(Drop(Tail(i), Len(ServerToken(i))), Blank)
TypeToken(i) == PrefixNotIn(AfterServer(i), Blank)
AfterType(i) == Drop(AfterServer(i), Len(TypeToken(i)))
HasType(i) ==
    TypeToken(i) \in {<<"A">>, <<"T", "X", "T">>} /\ AfterType(i) # <<>>
TypeName(t) == IF t = <<"A">> THEN "A" ELSE "TXT"

\* C15: a parsed @ form holds the record type A or TXT exactly when that
\* token, in upper case, stands between the server and the name, and None
\* when it is omitted; the Service built from it asks for the type it
\* holds, and for A when it holds None.
C15_RecordTypeOptional ==
    /\ (OptsParsed /\ call.out.t = "Ok" /\ call.out.v.kind = "Dns") =>
         call.out.v.record_type =
           IF HasType(call.in) THEN TypeName(TypeToken(call.in)) ELSE "None"
    /\ ( /\ OptsParsed /\ call.in # <<>> /\ Head(call.in) = "@"
         /\ HasType(call.in)
         /\ ServerToken(call.in) # <<>>
         /\ Server_from_str(ServerToken(call.in)).t = "Ok"
         /\ parse_name(TrimStart(AfterType(call.in), Blank)).t = "Ok" )
       => (call.out.t = "Ok" /\ call.out.v.kind = "Dns")
    /\ ( /\ ServiceBuilt /\ call.in.opts.kind = "Dns"
         /\ call.out.t = "Ok" ) =>
         call.out.v.record_type =
           IF call.in.opts.record_type = "None" THEN "A"
           ELSE call.in.opts.record_type

C15_Witness ==
    /\ ServiceBuilt
    /\ call.in.s = <<"@">> \o S_HOST \o <<" ">> \o S_HOST
    /\ call.in.opts.record_type = "None"
    /\ call.out.t = "Ok"
    /\ call.out.v.record_type = "A"

\* The texts of IP:port socket addresses.
SocketForms ==
    { [text |-> Display(a) \o <<":">> \o DecimalText(p),
       v |-> [ip |-> a, port |-> p]] : a \in BodyAddrs, p \in {53, 5353} }

\* C16: a server token of the form ip:port is the SocketAddr variant, a
\* bare IP literal is the Ip variant, Host is neither; a bare IP becomes
\* that IP with port 53 and no lookup is made for it.
C16_ServerClassification ==
    /\ (OptsParsed /\ call.out.t = "Ok" /\ call.out.v.kind = "Dns") =>
         LET token == ServerToken(call.in)
             server == call.out.v.server
         IN  /\ \A f \in SocketForms :
                  token = f.text => server = [kind |-> "SocketAddr", v |-> f.v]
             /\ \A a \in BodyAddrs :
                  token = Display(a) => server = [kind |-> "Ip", v |-> a]
             /\ server.kind = "Host" =>
                  /\ token \notin DottedForms
                  /\ \A f \in SocketForms : token # f.text
    /\ (ServiceBuilt /\ call.in.opts.kind = "Dns") =>
         LET server == call.in.opts.server IN
         /\ server.kind = "Ip" =>
              /\ call.out.t = "Ok"
              /\ call.out.v.server = [ip |-> server.v, port |-> 53]
              /\ lookups = 0
         /\ server.kind = "SocketAddr" =>
              /\ call.out.t = "Ok"
              /\ call.out.v.server = server.v
              /\ lookups = 0

C16_Witness ==
    /\ ServiceBuilt
    /\ call.in.s = <<"@">> \o S_ADDR \o <<" ", "A", " ">> \o S_HOST
    /\ call.in.opts.server = [kind |-> "Ip", v |-> <<192, 0, 2, 1>>]
    /\ call.out.t = "Ok"
    /\ call.out.v.server = [ip |-> <<192, 0, 2, 1>>, port |-> 53]
    /\ lookups = 0

\* C21: in Preflight scheduled mode a tick whose resolution succeeds and
\* whose update call fails is handled as a resolution failure is: the error
\* is logged, the loop sleeps min(tickInterval, 60 s) and not the full
\* tickInterval, and the next tick starts by resolving again.
C21_UpdateFailureBacksOff ==
    SchedPreflight =>
      \A i \in Ticks :
        (log[i].resolve = "ok" /\ log[i].update = "err") =>
          LET d == IF opts.schedule <= 60 THEN opts.schedule ELSE 60 IN
          /\ log[i].logged = "error"
          /\ SleptThenNext(i, d)
          /\ opts.schedule > 60 => log[i].sleep # opts.schedule
          /\ i < Len(log) => log[i + 1].resolve # "none"
          /\ (i = Len(log) /\ pc = "preflight_update") =>
               (cur.resolve = "ok" /\ cur.start = log[i].start + d)

C21_Witness ==
    /\ SchedPreflight /\ opts.schedule = 61 /\ Len(log) >= 2
    /\ log[1].resolve = "ok" /\ log[1].update = "err"
    /\ log[1].logged = "error" /\ log[1].sleep = 60
    /\ log[2].start = 60 /\ log[2].resolve # "none"

\* A step of the Preflight loop in which the Resolver gives address x.
Resolved(x) ==
    /\ pc = "loop"
    /\ \/ pc' = "preflight_update" /\ cur'.ip = x
       \/ /\ pc' = "sleep"
          /\ log'[Len(log')].resolve = "ok" /\ log'[Len(log')].ip = x
ResolvedAny == \E x \in Ipv4Addrs : Resolved(x)
\* A step in which the update call of the Preflight loop returns.
UpdateReturned == pc = "preflight_update" /\ pc' # "preflight_update"
UpdateSucceeded == UpdateReturned /\ log'[Len(log')].update = "ok"
\* The update call of the iteration just finished carried x and succeeded.
UpdatedWith(x) ==
    /\ pc = "sleep"
    /\ log[Len(log)].update = "ok" /\ log[Len(log)].args.ipv4 = x
    /\ prev_ip = x

\* C22: in Preflight scheduled mode, when from some point on every
\* successful resolution gives the same address x (not 0.0.0.0), resolutions
\* succeed again and again and update calls do not fail for ever, then under
\* fair execution an update call carrying x succeeds and from some point on
\* lastKnownAddress is x and no update call is issued any more.
C22_SettlesOnAddress ==
    \A x \in Ipv4Addrs \ {UNSPECIFIED} :
      ( /\ <>[][\A y \in Ipv4Addrs \ {x} : ~Resolved(y)]_vars
        /\ []<><<ResolvedAny>>_vars
        /\ ([]<><<UpdateReturned>>_vars => []<><<UpdateSucceeded>>_vars) )
      => /\ <>UpdatedWith(x)
         /\ <>[](prev_ip = x /\ pc # "preflight_update")

C22_Witness ==
    /\ ~History /\ Scheduled /\ Preflight
    /\ pc = "sleep" /\ prev_ip = 1
    /\ log[1].prev = 1 /\ log[1].resolve = "ok" /\ log[1].ip = 1
    /\ log[1].update = "none"

====
